---- MODULE Spec2Model ----
(***************************************************************************)
(* Tick-to-signal state machine of the NIFTY breakout trader               *)
(* (src/fixed_groww_trader.py, class OptimizedGrowwTrader), with the       *)
(* candle fold of src/optimized_groww_trader.py and the seeding done by    *)
(* src/historical_fetcher.py.                                              *)
(*                                                                         *)
(* Prices are integers (index points).  A timestamp is the number of       *)
(* seconds since midnight (IST) of the first modelled day, so the hour,    *)
(* the minute and the minute bucket are computed from it as the code       *)
(* computes them from a datetime.  The wall clock (datetime.now(IST)) is   *)
(* read once per tick and is an input of the tick; it never runs behind a  *)
(* wall-clock reading the engine has stored.                               *)
(*                                                                         *)
(* The engine has two threads after construction: the feed thread, which   *)
(* runs _run_feed and on which GrowwFeed.consume() delivers the _on_tick   *)
(* callbacks one after the other, and the main thread, which runs run().   *)
(* send_telegram_message either queues the message or raises (the          *)
(* notifier's event loop is gone).                                         *)
(*                                                                         *)
(* tick_count and start_time of src/fixed_groww_trader.py only feed log     *)
(* lines and are not modelled.                                             *)
(*                                                                         *)
(* The engine of src/optimized_groww_trader.py is the record opt with the  *)
(* list opt_candle_data; the notifier of src/telegram_notifier.py is the   *)
(* record notifier.                                                        *)
(***************************************************************************)
EXTENDS Integers, Sequences, FiniteSets, TLC

VARIABLES
    first15_high,           \* strategy range high
    first15_low,            \* strategy range low
    first15_done,           \* range captured
    context_set,            \* first tick seen
    breakout,               \* "NONE" | "BUY" | "SELL"
    breakout_price,
    breakout_time,          \* NONE_TIME, a tick timestamp or a wall-clock reading
    retest_time,            \* NONE_TIME or a wall-clock reading
    retest_touch_occurred,
    retest_confirmed,
    current_price,
    last_update,            \* timestamp of the last processed tick, or NONE_TIME
    candle_data,            \* sequence of 1-minute candles
    first_5min_high,
    first_5min_low,
    first_15min_high,       \* range shown in the notifications
    first_15min_low,
    first_5min_done,
    first_15min_done,
    last_signal_time,       \* NONE_TIME or a wall-clock reading
    first_15_printed,
    events,                 \* phase transitions performed by the last tick
    sent,                   \* messages handed to send_telegram_message by the last tick
    inspected,              \* candle positions read by the last tick's entry match
    signal_clock,           \* datetime.now(IST) as _generate_signal read it in the last tick
    match_clock,            \* datetime.now(IST) as _generate_signal last read it
    confirm_bucket,         \* minute bucket of the tick that last confirmed a retest
    confirm_dir,            \* direction of the retest last confirmed
    window_prices,          \* prices of the ticks processed in [09:15, 09:30) before capture
    returned,               \* a tick after the breakout tick came back to the broken level
    cycle_log,              \* the transitions of the breakout cycle, one entry per tick
    notification_5min_sent,
    notification_15min_sent,
    running,                \* the flag both loops test
    run_pc,                 \* main thread: "start" | "loop" | "done"
    feed_pc,                \* feed thread: "check" | "consume" | "backoff" | "done"
    notifier_down,          \* send_telegram_message raises
    send_failed,            \* a send call raised during the last tick
    payload_kind,           \* "ok", or what the last payload handed to _on_tick lacked
    writers,                \* threads that have written the engine's fields since construction
    tick_time,              \* trade time of the last tick handed to _on_tick at the gate
    opt,                    \* the fields of the engine of src/optimized_groww_trader.py
    opt_pc,                 \* the assignments its constructor makes next, or "done"
    notifier,               \* the AsyncTelegramNotifier of src/telegram_notifier.py
    opt_candle_data         \* candle_data of src/optimized_groww_trader.py

vars == <<first15_high, first15_low, first15_done, context_set, breakout,
          breakout_price, retest_touch_occurred, retest_confirmed,
          current_price, candle_data, first_5min_high, first_5min_low,
          first_15min_high, first_15min_low, first_5min_done,
          first_15min_done, last_signal_time, first_15_printed, events, sent,
          inspected, signal_clock, match_clock, confirm_bucket, confirm_dir,
          last_update, breakout_time, retest_time, window_prices,
          returned, cycle_log, notification_5min_sent,
          notification_15min_sent, running, run_pc, feed_pc, notifier_down,
          send_failed, payload_kind, writers, tick_time, opt, opt_pc,
          notifier, opt_candle_data>>

\* the flag, the position of each thread and the state of the notifier
env_vars == <<running, run_pc, feed_pc, notifier_down>>

\* the optimized engine
opt_vars == <<opt, opt_pc, opt_candle_data>>

----------------------------------------------------------------------------
(* Program constants *)

\* float('inf'): larger than every price
INF == 1000000
\* None, where the code holds a datetime or None
NONE_TIME == -1
\* signal_cooldown_period
signal_cooldown_period == 300
\* "Keep only last 60 candles"
MAX_CANDLES == 60
\* strike spacing in round(entry_price / 50) * 50
STRIKE_STEP == 50

\* a payload without the key ('value' or 'tsInMillis')
MISSING == -2
\* a payload whose field float() or the division by 1000 rejects
GARBLED == -3

SECONDS_PER_DAY == 24 * 3600
\* datetime.strptime("09:15", "%H:%M").time()
market_open_time == 9 * 3600 + 15 * 60
\* datetime.strptime("09:30", "%H:%M").time()
first_15_end_time == 9 * 3600 + 30 * 60
\* datetime.strptime("15:30", "%H:%M").time()
market_end == 15 * 3600 + 30 * 60

----------------------------------------------------------------------------
(* Bounds of the model *)

\* the general specification stops appending candles at this length
MaxCandles == 3
\* the one-hour specification runs this many minutes past 09:30
MaxMinutes == 62
\* the strike specification seeds ranges up to this level
MaxStrikeBase == 80

At(h, m, s) == h * 3600 + m * 60 + s

Max2(a, b) == IF a >= b THEN a ELSE b
Min2(a, b) == IF a <= b THEN a ELSE b

----------------------------------------------------------------------------
(* datetime arithmetic *)

TimeOfDay(ts) == ts % SECONDS_PER_DAY
Hour(ts) == TimeOfDay(ts) \div 3600
Minute(ts) == (TimeOfDay(ts) % 3600) \div 60
\* timestamp.replace(second=0, microsecond=0)
MinuteBucket(ts) == ts - (ts % 60)
\* timedelta.seconds: the seconds field of the normalised difference, days dropped
TimedeltaSeconds(d) == d % SECONDS_PER_DAY

in_first15(ts) == Hour(ts) = 9 /\ Minute(ts) >= 15 /\ Minute(ts) < 30
in_first5(ts) == Hour(ts) = 9 /\ Minute(ts) >= 15 /\ Minute(ts) < 20
\* market hours without a closing time
is_market_hours_open_ended(ts) ==
    market_open_time <= TimeOfDay(ts)

\* _is_market_hours
is_market_hours(ts) ==
    market_open_time <= TimeOfDay(ts) /\ TimeOfDay(ts) <= market_end

\* the multiple of 50 at or below p
OptimalStrikeFloor(p) == (p \div STRIKE_STEP) * STRIKE_STEP

\* round(x / 50) * 50 with Python's round-half-to-even
OptimalStrike(p) ==
    LET q == p \div STRIKE_STEP
        r == p % STRIKE_STEP
    IN  IF 2 * r < STRIKE_STEP THEN q * STRIKE_STEP
        ELSE IF 2 * r > STRIKE_STEP THEN (q + 1) * STRIKE_STEP
        ELSE IF q % 2 = 0 THEN q * STRIKE_STEP ELSE (q + 1) * STRIKE_STEP

\* what a message to the notifier carries: its kind and its computed numbers
Msg(kind, dir, price, strike, option_type) ==
    [kind |-> kind, dir |-> dir, price |-> price, strike |-> strike,
     option_type |-> option_type]

\* send_telegram_message as the engine sees it: the message is queued, or
\* the call raises
Send(s, m) ==
    IF s.notifier_down THEN [s EXCEPT !.raised = TRUE, !.send_failed = TRUE]
    ELSE [s EXCEPT !.sent = Append(@, m)]
Event(s, e) == [s EXCEPT !.events = Append(@, e)]

----------------------------------------------------------------------------
(* The engine's fields as one record, so that a handler is the composition *)
(* of the methods it calls.  raised is the exception in flight: a method   *)
(* that finds it set has been skipped by the unwinding.                    *)

Self ==
    [first15_high |-> first15_high, first15_low |-> first15_low,
     first15_done |-> first15_done, context_set |-> context_set,
     breakout |-> breakout, breakout_price |-> breakout_price,
     breakout_time |-> breakout_time, retest_time |-> retest_time,
     window_prices |-> window_prices,
     returned |-> returned, cycle_log |-> cycle_log,
     notification_5min_sent |-> notification_5min_sent,
     notification_15min_sent |-> notification_15min_sent,
     notifier_down |-> notifier_down, send_failed |-> send_failed,
     raised |-> FALSE,
     retest_touch_occurred |-> retest_touch_occurred,
     retest_confirmed |-> retest_confirmed,
     current_price |-> current_price, last_update |-> last_update,
     candle_data |-> candle_data,
     first_5min_high |-> first_5min_high, first_5min_low |-> first_5min_low,
     first_15min_high |-> first_15min_high,
     first_15min_low |-> first_15min_low,
     first_5min_done |-> first_5min_done,
     first_15min_done |-> first_15min_done,
     last_signal_time |-> last_signal_time,
     first_15_printed |-> first_15_printed,
     events |-> events, sent |-> sent, inspected |-> inspected,
     signal_clock |-> signal_clock, match_clock |-> match_clock,
     confirm_bucket |-> confirm_bucket, confirm_dir |-> confirm_dir]

\* _set_initial_context of src/optimized_groww_trader.py: the first price
\* becomes the range
SetInitialContextFromPrice(s, price, ts) ==
    Send([s EXCEPT !.context_set = TRUE, !.first15_high = price,
                   !.first15_low = price, !.first15_done = TRUE],
         Msg("first_live_data", "NONE", price, 0, ""))

\* the late-start breakout recorded at the level instead of the price
SetInitialContextAtLevel(s, price, ts) ==
    LET s1 == [s EXCEPT !.context_set = TRUE]
    IN  IF s1.first15_done /\ s1.first15_high > 0 /\ s1.first15_low < INF
        THEN IF price > s1.first15_high
             THEN Event([s1 EXCEPT !.breakout = "BUY",
                                   !.breakout_price = s1.first15_high],
                        "breakout")
             ELSE IF price < s1.first15_low
             THEN Event([s1 EXCEPT !.breakout = "SELL",
                                   !.breakout_price = s1.first15_low],
                        "breakout")
             ELSE s1
        ELSE s1

\* _set_initial_context
SetInitialContext(s, price, ts) ==
    LET s1 == [s EXCEPT !.context_set = TRUE]
    IN  IF s1.first15_done /\ s1.first15_high > 0 /\ s1.first15_low < INF
        THEN LET s2 ==
                   IF price > s1.first15_high
                   THEN Send(Event([s1 EXCEPT !.breakout = "BUY",
                                              !.breakout_time = ts,
                                              !.breakout_price = price],
                                   "breakout"),
                             Msg("immediate_breakout", "BUY", price,
                                 OptimalStrike(price), "CE"))
                   ELSE IF price < s1.first15_low
                   THEN Send(Event([s1 EXCEPT !.breakout = "SELL",
                                              !.breakout_time = ts,
                                              !.breakout_price = price],
                                   "breakout"),
                             Msg("immediate_breakout", "SELL", price,
                                 OptimalStrike(price), "PE"))
                   ELSE s1
             IN  IF s2.raised THEN s2
                 ELSE Send(s2, Msg("script_restart", "NONE", price, 0, ""))
        ELSE Send(s1, Msg("first_live_data", "NONE", price, 0, ""))

NewCandle(price, ts) ==
    [timestamp |-> MinuteBucket(ts), open |-> price, high |-> price,
     low |-> price, close |-> price, volume |-> 0]

\* a refinement that takes the tick's price for the high and the low
FoldCandleLastPrice(cd, price, ts) ==
    IF cd = <<>> \/ cd[Len(cd)].timestamp # MinuteBucket(ts)
    THEN LET appended == Append(cd, NewCandle(price, ts))
         IN  IF Len(appended) > MAX_CANDLES THEN Tail(appended) ELSE appended
    ELSE [cd EXCEPT ![Len(cd)] =
             [@ EXCEPT !.high = price, !.low = price, !.close = price]]

\* above 60 entries the candle just appended is the one dropped
FoldCandleDropNewest(cd, price, ts) ==
    IF cd = <<>> \/ cd[Len(cd)].timestamp # MinuteBucket(ts)
    THEN LET appended == Append(cd, NewCandle(price, ts))
         IN  IF Len(appended) > MAX_CANDLES
             THEN SubSeq(appended, 1, MAX_CANDLES) ELSE appended
    ELSE [cd EXCEPT ![Len(cd)] =
             [@ EXCEPT !.high = Max2(@, price), !.low = Min2(@, price),
                       !.close = price]]

\* the candle list after one tick: append (and evict the front above 60) or
\* refine the trailing candle
FoldCandle(cd, price, ts) ==
    IF cd = <<>> \/ cd[Len(cd)].timestamp # MinuteBucket(ts)
    THEN LET appended == Append(cd, NewCandle(price, ts))
         IN  IF Len(appended) > MAX_CANDLES THEN Tail(appended) ELSE appended
    ELSE [cd EXCEPT ![Len(cd)] =
             [@ EXCEPT !.high = Max2(@, price), !.low = Min2(@, price),
                       !.close = price]]

\* _update_candle of src/optimized_groww_trader.py, which changes candle_data
\* and nothing else; no other method of that engine writes candle_data
OptUpdateCandle(cd, price, ts) ==
    IF cd = <<>> \/ cd[Len(cd)].timestamp # MinuteBucket(ts)
    THEN LET appended == Append(cd, NewCandle(price, ts))
         IN  IF Len(appended) > MAX_CANDLES THEN Tail(appended) ELSE appended
    ELSE [cd EXCEPT ![Len(cd)] =
             [@ EXCEPT !.high = Max2(@, price), !.low = Min2(@, price),
                       !.close = price]]

\* the 5/15-minute trackers of _update_candle (same code in both branches)
TrackLevels(s, price, ts) ==
    IF is_market_hours(ts)
    THEN LET s1 == IF ~s.first_5min_done /\ in_first5(ts)
                   THEN [s EXCEPT !.first_5min_high = Max2(@, price),
                                  !.first_5min_low = Min2(@, price)]
                   ELSE s
         IN  IF ~s1.first_15min_done /\ in_first15(ts)
             THEN [s1 EXCEPT !.first_15min_high = Max2(@, price),
                             !.first_15min_low = Min2(@, price)]
             ELSE s1
    ELSE s

\* _update_candle
UpdateCandle(s, price, ts) ==
    TrackLevels([s EXCEPT !.candle_data = FoldCandle(@, price, ts)], price, ts)

\* a capture that also folds the price of the capturing tick into the range
TrackFirst15minWithLast(s, ts) ==
    IF s.first15_done THEN s
    ELSE IF in_first15(ts)
    THEN [s EXCEPT !.first15_high = Max2(@, s.current_price),
                   !.first15_low = Min2(@, s.current_price)]
    ELSE IF TimeOfDay(ts) >= first_15_end_time
    THEN Event([s EXCEPT !.first15_done = TRUE,
                         !.first15_high = Max2(@, s.current_price),
                         !.first15_low = Min2(@, s.current_price)],
               "captured")
    ELSE s

\* _track_first_15min
TrackFirst15min(s, ts) ==
    IF s.first15_done THEN s
    ELSE IF in_first15(ts)
    THEN [s EXCEPT !.first15_high = Max2(@, s.current_price),
                   !.first15_low = Min2(@, s.current_price)]
    ELSE IF TimeOfDay(ts) >= first_15_end_time
    THEN Send(Event([s EXCEPT !.first15_done = TRUE], "captured"),
              Msg("first15_complete", "NONE", s.first15_high, 0, ""))
    ELSE s

\* a breakout test that counts a price at the level, SELL tested first
DetectBreakoutInclusive(s, now) ==
    IF s.current_price <= s.first15_low
    THEN Event([s EXCEPT !.breakout = "SELL", !.breakout_time = now,
                         !.breakout_price = s.current_price], "breakout")
    ELSE IF s.current_price >= s.first15_high
    THEN Event([s EXCEPT !.breakout = "BUY", !.breakout_time = now,
                         !.breakout_price = s.current_price], "breakout")
    ELSE s

\* _detect_breakout
DetectBreakout(s, now) ==
    IF s.current_price > s.first15_high
    THEN Send(Event([s EXCEPT !.breakout = "BUY",
                              !.breakout_time = now,
                              !.breakout_price = s.current_price],
                    "breakout"),
              Msg("breakout", "BUY", s.current_price,
                  OptimalStrike(s.current_price), "CE"))
    ELSE IF s.current_price < s.first15_low
    THEN Send(Event([s EXCEPT !.breakout = "SELL",
                              !.breakout_time = now,
                              !.breakout_price = s.current_price],
                    "breakout"),
              Msg("breakout", "SELL", s.current_price,
                  OptimalStrike(s.current_price), "PE"))
    ELSE s

\* a touch recorded wherever the candle is
RetestTouchAnywhere(s) ==
    Event([s EXCEPT !.retest_touch_occurred = TRUE], "touch")

\* _confirm_retest, step 1: the touch
RetestTouch(s) ==
    LET current_candle == s.candle_data[Len(s.candle_data)]
    IN  IF s.breakout = "BUY" /\ current_candle.low <= s.first15_high
        THEN Event([s EXCEPT !.retest_touch_occurred = TRUE], "touch")
        ELSE IF s.breakout = "SELL" /\ current_candle.high >= s.first15_low
        THEN Event([s EXCEPT !.retest_touch_occurred = TRUE], "touch")
        ELSE s

\* _confirm_retest, step 2: the close back beyond the level
RetestClose(s, now) ==
    LET current_candle == s.candle_data[Len(s.candle_data)]
    IN  IF s.retest_touch_occurred /\ ~s.retest_confirmed
        THEN IF s.breakout = "BUY" /\ current_candle.close > s.first15_high
             THEN Send(Event([s EXCEPT !.retest_confirmed = TRUE,
                                       !.retest_time = now,
                                       !.confirm_bucket =
                                           current_candle.timestamp,
                                       !.confirm_dir = s.breakout],
                             "confirm"),
                       Msg("retest_confirmed", "BUY", current_candle.close,
                           OptimalStrike(current_candle.close), "CE"))
             ELSE IF s.breakout = "SELL"
                     /\ current_candle.close < s.first15_low
             THEN Send(Event([s EXCEPT !.retest_confirmed = TRUE,
                                       !.retest_time = now,
                                       !.confirm_bucket =
                                           current_candle.timestamp,
                                       !.confirm_dir = s.breakout],
                             "confirm"),
                       Msg("retest_confirmed", "SELL", current_candle.close,
                           OptimalStrike(current_candle.close), "PE"))
             ELSE s
        ELSE s

\* step 1 falling through to step 2 in the same call
ConfirmRetestFallThrough(s, now) ==
    IF s.candle_data = <<>> THEN s
    ELSE IF ~s.retest_touch_occurred THEN RetestClose(RetestTouch(s), now)
    ELSE RetestClose(s, now)

\* _confirm_retest
ConfirmRetest(s, now) ==
    IF s.candle_data = <<>> THEN s
    ELSE IF ~s.retest_touch_occurred THEN RetestTouch(s)
    ELSE RetestClose(s, now)

\* a cooldown test that never suppresses
InCooldownNever(s, now) == FALSE

\* the cooldown test of _generate_signal
InCooldown(s, now) ==
    /\ s.last_signal_time # NONE_TIME
    /\ TimedeltaSeconds(now - s.last_signal_time) < signal_cooldown_period

\* a signal priced at the open of the entry candle
GenerateSignalAtOpen(s, entry_candle, now) ==
    LET s1 == [s EXCEPT !.signal_clock = now, !.match_clock = now]
    IN  IF InCooldown(s1, now) THEN s1
        ELSE LET entry_price == entry_candle.open
                 option_type == IF s1.breakout = "BUY" THEN "CE" ELSE "PE"
                 s2 == Send(s1, Msg("signal", s1.breakout, entry_price,
                                    OptimalStrike(entry_price), option_type))
             IN  IF s2.raised THEN [s2 EXCEPT !.raised = FALSE]
                 ELSE [s2 EXCEPT !.last_signal_time = now]

\* a cooldown restarted by every match, emitted or not
GenerateSignalStamping(s, entry_candle, now) ==
    LET s1 == [s EXCEPT !.signal_clock = now, !.match_clock = now]
    IN  IF InCooldown(s1, now) THEN [s1 EXCEPT !.last_signal_time = now]
        ELSE LET entry_price == entry_candle.close
                 option_type == IF s1.breakout = "BUY" THEN "CE" ELSE "PE"
                 s2 == Send(s1, Msg("signal", s1.breakout, entry_price,
                                    OptimalStrike(entry_price), option_type))
             IN  IF s2.raised THEN [s2 EXCEPT !.raised = FALSE]
                 ELSE [s2 EXCEPT !.last_signal_time = now]

\* _generate_signal; its try/except swallows what the send raises, the
\* assignment of last_signal_time after the send being skipped
GenerateSignal(s, entry_candle, now) ==
    LET s1 == [s EXCEPT !.signal_clock = now, !.match_clock = now]
    IN  IF InCooldown(s1, now) THEN s1
        ELSE LET entry_price == entry_candle.close
                 option_type == IF s1.breakout = "BUY" THEN "CE" ELSE "PE"
                 s2 == Send(s1, Msg("signal", s1.breakout, entry_price,
                                    OptimalStrike(entry_price), option_type))
             IN  IF s2.raised THEN [s2 EXCEPT !.raised = FALSE]
                 ELSE [s2 EXCEPT !.last_signal_time = now]

\* a reset that forgets the breakout but keeps the retest fields
ResetStrategyBreakoutOnly(s) ==
    [s EXCEPT !.breakout = "NONE", !.breakout_price = 0,
              !.breakout_time = NONE_TIME]

\* a reset that leaves the two times behind
ResetStrategyKeepTimes(s) ==
    [s EXCEPT !.breakout = "NONE", !.breakout_price = 0,
              !.retest_touch_occurred = FALSE, !.retest_confirmed = FALSE]

\* _reset_strategy
ResetStrategy(s) ==
    [s EXCEPT !.breakout = "NONE", !.breakout_price = 0,
              !.breakout_time = NONE_TIME,
              !.retest_touch_occurred = FALSE, !.retest_confirmed = FALSE,
              !.retest_time = NONE_TIME]

\* the trailing candle and the one before it
EntryCandlesTrailing(cd) == <<Len(cd), Len(cd) - 1>>

\* the two candles _check_entry_signal reads: candle_data[-2], candle_data[-3]
EntryCandles(cd) == <<Len(cd) - 1, Len(cd) - 2>>

\* a colour test that takes a flat candle (close = open) for green
is_green_or_flat(c) == c.close >= c.open

\* the candle colours of _check_entry_signal
is_green(c) == c.close > c.open
is_red(c) == c.close < c.open

\* _check_entry_signal
CheckEntrySignal(s, now) ==
    IF Len(s.candle_data) < 3 THEN s
    ELSE
    LET pos == EntryCandles(s.candle_data)
        last_candle == s.candle_data[pos[1]]
        prev_candle == s.candle_data[pos[2]]
        last_is_green == is_green(last_candle)
        prev_is_green == is_green(prev_candle)
        last_is_red == is_red(last_candle)
        prev_is_red == is_red(prev_candle)
        matched == [Event(s, "entry") EXCEPT !.inspected = pos]
    IN  IF /\ s.breakout = "BUY" /\ last_is_green /\ prev_is_green
           /\ last_candle.close > s.first15_high
           /\ prev_candle.close > s.first15_high
        THEN ResetStrategy(GenerateSignal(matched, last_candle, now))
        ELSE IF /\ s.breakout = "SELL" /\ last_is_red /\ prev_is_red
                /\ last_candle.close < s.first15_low
                /\ prev_candle.close < s.first15_low
        THEN ResetStrategy(GenerateSignal(matched, last_candle, now))
        ELSE s

\* the phases run one after the other within a tick
ExecuteStrategyCascade(s, ts, now) ==
    LET s1 == IF ~s.first15_done THEN TrackFirst15min(s, ts) ELSE s
        s2 == IF s1.first15_done /\ s1.breakout = "NONE"
              THEN DetectBreakout(s1, now) ELSE s1
        s3 == IF s2.breakout # "NONE" /\ ~s2.retest_confirmed
              THEN ConfirmRetest(s2, now) ELSE s2
    IN  IF s3.retest_confirmed THEN CheckEntrySignal(s3, now) ELSE s3

\* the breakout is looked for again until the retest is confirmed
ExecuteStrategyRedetect(s, ts, now) ==
    IF ~s.first15_done THEN TrackFirst15min(s, ts)
    ELSE IF ~s.retest_confirmed THEN ConfirmRetest(DetectBreakout(s, now), now)
    ELSE CheckEntrySignal(s, now)

\* a pending breakout dropped when the price falls through the opposite bound
ExecuteStrategyInvalidating(s, ts, now) ==
    IF ~s.first15_done THEN TrackFirst15min(s, ts)
    ELSE IF s.breakout = "NONE" THEN DetectBreakout(s, now)
    ELSE IF \/ s.breakout = "BUY" /\ s.current_price < s.first15_low
            \/ s.breakout = "SELL" /\ s.current_price > s.first15_high
    THEN ResetStrategy(s)
    ELSE IF ~s.retest_confirmed THEN ConfirmRetest(s, now)
    ELSE CheckEntrySignal(s, now)

\* the entry pattern looked for as soon as a breakout is set
ExecuteStrategyNoRetest(s, ts, now) ==
    IF ~s.first15_done THEN TrackFirst15min(s, ts)
    ELSE IF s.breakout = "NONE" THEN DetectBreakout(s, now)
    ELSE CheckEntrySignal(s, now)

\* _execute_strategy
ExecuteStrategy(s, ts, now) ==
    IF ~s.first15_done THEN TrackFirst15min(s, ts)
    ELSE IF s.breakout = "NONE" THEN DetectBreakout(s, now)
    ELSE IF ~s.retest_confirmed THEN ConfirmRetest(s, now)
    ELSE CheckEntrySignal(s, now)

\* _print_15min_levels_at_931
Print15minLevelsAt931(s, ts) ==
    IF ~s.first_15_printed /\ Hour(ts) = 9 /\ Minute(ts) >= 31
       /\ s.first15_done
    THEN Send([s EXCEPT !.first_15_printed = TRUE],
              Msg("levels_931", "NONE", s.first15_high, 0, ""))
    ELSE s

\* the price is at or back through the level the breakout broke
AtBrokenLevel(s, price) ==
    \/ s.breakout = "BUY" /\ price <= s.first15_high
    \/ s.breakout = "SELL" /\ price >= s.first15_low

\* the record of a tick that made a transition of a breakout cycle; before
\* is the engine as the tick found it
LogCycle(before, s) ==
    IF s.events # <<>> /\ (before.breakout # "NONE" \/ s.breakout # "NONE")
    THEN [s EXCEPT !.cycle_log =
             Append(@, [events |-> s.events,
                        dir |-> IF s.breakout # "NONE" THEN s.breakout
                                ELSE before.breakout])]
    ELSE s

\* _process_tick; an exception raised by a send leaves it at once (and is
\* caught by _on_tick)
ProcessTick(s, price, ts, now) ==
    LET s0 == [s EXCEPT !.current_price = price, !.last_update = ts,
                        !.events = <<>>, !.sent = <<>>, !.inspected = <<>>,
                        !.signal_clock = NONE_TIME,
                        !.send_failed = FALSE, !.raised = FALSE,
                        !.returned =
                            IF s.breakout = "NONE" THEN FALSE
                            ELSE IF AtBrokenLevel(s, price) THEN TRUE ELSE @,
                        !.cycle_log = IF s.breakout = "NONE" THEN <<>> ELSE @,
                        !.window_prices =
                            IF /\ ~s.first15_done
                               /\ market_open_time <= TimeOfDay(ts)
                               /\ TimeOfDay(ts) < first_15_end_time
                            THEN @ \cup {price} ELSE @]
        s1 == IF ~s0.context_set THEN SetInitialContext(s0, price, ts)
              ELSE s0
        s2 == IF s1.raised THEN s1 ELSE UpdateCandle(s1, price, ts)
        s3 == IF s2.raised THEN s2 ELSE ExecuteStrategy(s2, ts, now)
        s4 == IF s3.raised THEN s3 ELSE Print15minLevelsAt931(s3, ts)
    IN  LogCycle(s, s4)

\* the engine's fields after a handler
Becomes(s) ==
    /\ first15_high' = s.first15_high
    /\ first15_low' = s.first15_low
    /\ first15_done' = s.first15_done
    /\ context_set' = s.context_set
    /\ breakout' = s.breakout
    /\ breakout_price' = s.breakout_price
    /\ breakout_time' = s.breakout_time
    /\ retest_time' = s.retest_time
    /\ window_prices' = s.window_prices
    /\ returned' = s.returned
    /\ cycle_log' = s.cycle_log
    /\ notification_5min_sent' = s.notification_5min_sent
    /\ notification_15min_sent' = s.notification_15min_sent
    /\ send_failed' = s.send_failed
    /\ retest_touch_occurred' = s.retest_touch_occurred
    /\ retest_confirmed' = s.retest_confirmed
    /\ current_price' = s.current_price
    /\ last_update' = s.last_update
    /\ candle_data' = s.candle_data
    /\ first_5min_high' = s.first_5min_high
    /\ first_5min_low' = s.first_5min_low
    /\ first_15min_high' = s.first_15min_high
    /\ first_15min_low' = s.first_15min_low
    /\ first_5min_done' = s.first_5min_done
    /\ first_15min_done' = s.first_15min_done
    /\ last_signal_time' = s.last_signal_time
    /\ first_15_printed' = s.first_15_printed
    /\ events' = s.events
    /\ sent' = s.sent
    /\ inspected' = s.inspected
    /\ signal_clock' = s.signal_clock
    /\ match_clock' = s.match_clock
    /\ confirm_bucket' = s.confirm_bucket
    /\ confirm_dir' = s.confirm_dir

----------------------------------------------------------------------------
(* The engine of src/optimized_groww_trader.py.  Its constructor starts    *)
(* the feed thread and only then assigns the fields, in three groups:      *)
(* the strategy state, the data tracking, the performance tracking.        *)
(* A tick is handled between two of the groups or after the last.  A field *)
(* the constructor has not assigned yet holds the value it will be given:  *)
(* the first field _process_tick reads is tick_count, which is assigned    *)
(* last and holds MISSING until then.  Notifications are sent on threads   *)
(* of their own and raise nothing into the engine.                         *)

\* the values __init__ assigns
OptConstructed ==
    [first15_high |-> 0, first15_low |-> INF, first15_done |-> FALSE,
     context_set |-> FALSE, breakout |-> "NONE", breakout_price |-> 0,
     breakout_time |-> NONE_TIME, retest_touch_occurred |-> FALSE,
     retest_confirmed |-> FALSE, retest_time |-> NONE_TIME,
     current_price |-> 0, last_update |-> NONE_TIME, tick_count |-> 0,
     events |-> <<>>, sent |-> <<>>, inspected |-> <<>>]

\* the fields and the candles, as the methods see them
OptSelf ==
    [first15_high |-> opt.first15_high, first15_low |-> opt.first15_low,
     first15_done |-> opt.first15_done, context_set |-> opt.context_set,
     breakout |-> opt.breakout, breakout_price |-> opt.breakout_price,
     breakout_time |-> opt.breakout_time,
     retest_touch_occurred |-> opt.retest_touch_occurred,
     retest_confirmed |-> opt.retest_confirmed,
     retest_time |-> opt.retest_time,
     current_price |-> opt.current_price, last_update |-> opt.last_update,
     tick_count |-> opt.tick_count,
     events |-> opt.events, sent |-> opt.sent, inspected |-> opt.inspected,
     candle_data |-> opt_candle_data]

\* the optimized engine's fields after a handler
OptBecomes(o) ==
    /\ opt' =
         [first15_high |-> o.first15_high, first15_low |-> o.first15_low,
          first15_done |-> o.first15_done, context_set |-> o.context_set,
          breakout |-> o.breakout, breakout_price |-> o.breakout_price,
          breakout_time |-> o.breakout_time,
          retest_touch_occurred |-> o.retest_touch_occurred,
          retest_confirmed |-> o.retest_confirmed,
          retest_time |-> o.retest_time,
          current_price |-> o.current_price, last_update |-> o.last_update,
          tick_count |-> o.tick_count,
          events |-> o.events, sent |-> o.sent, inspected |-> o.inspected]
    /\ opt_candle_data' = o.candle_data

\* threading.Thread(target=send_telegram_message, args=(message,)).start()
OptSend(o, m) == [o EXCEPT !.sent = Append(@, m)]

\* _set_initial_context
OptSetInitialContext(o, price, ts) ==
    OptSend([o EXCEPT !.context_set = TRUE, !.first15_high = price,
                      !.first15_low = price, !.first15_done = TRUE],
            Msg("context_set", "NONE", price, 0, ""))

\* _track_first_15min
OptTrackFirst15min(o, ts) ==
    IF in_first15(ts)
    THEN [o EXCEPT !.first15_high = Max2(@, o.current_price),
                   !.first15_low = Min2(@, o.current_price)]
    ELSE IF TimeOfDay(ts) >= first_15_end_time
    THEN OptSend(Event([o EXCEPT !.first15_done = TRUE], "captured"),
                 Msg("first15_complete", "NONE", o.first15_high, 0, ""))
    ELSE o

\* candle_5min of _detect_breakout, from the last five candles
Candle5min(cd) ==
    LET recent_candles == SubSeq(cd, Len(cd) - 4, Len(cd))
        highs == { recent_candles[i].high : i \in 1..5 }
        lows == { recent_candles[i].low : i \in 1..5 }
    IN  [open |-> recent_candles[1].open,
         high |-> CHOOSE h \in highs : \A x \in highs : h >= x,
         low |-> CHOOSE l \in lows : \A x \in lows : l <= x,
         close |-> recent_candles[5].close,
         volume |-> recent_candles[1].volume + recent_candles[2].volume
                    + recent_candles[3].volume + recent_candles[4].volume
                    + recent_candles[5].volume]

\* a detector that tests the extremes of the aggregated candle
OptDetectBreakoutOnExtremes(o, now) ==
    IF Len(o.candle_data) < 5 THEN o
    ELSE LET candle_5min == Candle5min(o.candle_data)
         IN  IF candle_5min.high > o.first15_high
             THEN Event([o EXCEPT !.breakout = "BUY",
                                  !.breakout_price = candle_5min.high,
                                  !.breakout_time = now], "breakout")
             ELSE IF candle_5min.low < o.first15_low
             THEN Event([o EXCEPT !.breakout = "SELL",
                                  !.breakout_price = candle_5min.low,
                                  !.breakout_time = now], "breakout")
             ELSE o

\* _detect_breakout
OptDetectBreakout(o, now) ==
    IF Len(o.candle_data) < 5 THEN o
    ELSE LET close_price == Candle5min(o.candle_data).close
         IN  IF close_price > o.first15_high
             THEN Event([o EXCEPT !.breakout = "BUY",
                                  !.breakout_price = close_price,
                                  !.breakout_time = now], "breakout")
             ELSE IF close_price < o.first15_low
             THEN Event([o EXCEPT !.breakout = "SELL",
                                  !.breakout_price = close_price,
                                  !.breakout_time = now], "breakout")
             ELSE o

\* _confirm_retest
OptConfirmRetest(o, now) ==
    IF o.candle_data = <<>> THEN o
    ELSE
    LET current_candle == o.candle_data[Len(o.candle_data)]
    IN  IF ~o.retest_touch_occurred
        THEN IF o.breakout = "BUY" /\ current_candle.low <= o.first15_high
             THEN Event([o EXCEPT !.retest_touch_occurred = TRUE], "touch")
             ELSE IF o.breakout = "SELL"
                     /\ current_candle.high >= o.first15_low
             THEN Event([o EXCEPT !.retest_touch_occurred = TRUE], "touch")
             ELSE o
        ELSE IF ~o.retest_confirmed
        THEN IF o.breakout = "BUY" /\ current_candle.close > o.first15_high
             THEN Event([o EXCEPT !.retest_confirmed = TRUE,
                                  !.retest_time = now], "confirm")
             ELSE IF o.breakout = "SELL"
                     /\ current_candle.close < o.first15_low
             THEN Event([o EXCEPT !.retest_confirmed = TRUE,
                                  !.retest_time = now], "confirm")
             ELSE o
        ELSE o

\* _generate_signal
OptGenerateSignal(o, entry_candle) ==
    LET entry_price == entry_candle.close
        option_type == IF o.breakout = "BUY" THEN "CE" ELSE "PE"
    IN  OptSend(o, Msg("signal", o.breakout, entry_price,
                       OptimalStrike(entry_price), option_type))

\* _reset_strategy
OptResetStrategy(o) ==
    [o EXCEPT !.breakout = "NONE", !.breakout_price = 0,
              !.breakout_time = NONE_TIME,
              !.retest_touch_occurred = FALSE, !.retest_confirmed = FALSE,
              !.retest_time = NONE_TIME]

\* the two candles _check_entry_signal reads: candle_data[-1], candle_data[-2]
OptEntryCandles(cd) == <<Len(cd), Len(cd) - 1>>

\* _check_entry_signal
OptCheckEntrySignal(o) ==
    IF Len(o.candle_data) < 2 THEN o
    ELSE
    LET pos == OptEntryCandles(o.candle_data)
        last_candle == o.candle_data[pos[1]]
        prev_candle == o.candle_data[pos[2]]
        matched == [Event(o, "entry") EXCEPT !.inspected = pos]
    IN  IF /\ o.breakout = "BUY"
           /\ is_green(last_candle) /\ is_green(prev_candle)
           /\ last_candle.close > o.first15_high
           /\ prev_candle.close > o.first15_high
        THEN OptResetStrategy(OptGenerateSignal(matched, last_candle))
        ELSE IF /\ o.breakout = "SELL"
                /\ is_red(last_candle) /\ is_red(prev_candle)
                /\ last_candle.close < o.first15_low
                /\ prev_candle.close < o.first15_low
        THEN OptResetStrategy(OptGenerateSignal(matched, last_candle))
        ELSE o

\* _execute_strategy
OptExecuteStrategy(o, ts, now) ==
    IF ~o.first15_done THEN OptTrackFirst15min(o, ts)
    ELSE IF o.breakout = "NONE" THEN OptDetectBreakout(o, now)
    ELSE IF ~o.retest_confirmed THEN OptConfirmRetest(o, now)
    ELSE OptCheckEntrySignal(o)

\* _process_tick; before the constructor has assigned tick_count the
\* increment raises AttributeError, which _on_tick catches
OptProcessTick(o, price, ts, now) ==
    LET o0 == [o EXCEPT !.current_price = price, !.last_update = ts,
                        !.events = <<>>, !.sent = <<>>, !.inspected = <<>>]
    IN  IF o0.tick_count = MISSING THEN o0
        ELSE LET o1 == [o0 EXCEPT !.tick_count = @ + 1]
                 o2 == IF ~o1.context_set
                       THEN OptSetInitialContext(o1, price, ts) ELSE o1
                 o3 == [o2 EXCEPT !.candle_data =
                                      OptUpdateCandle(@, price, ts)]
             IN  OptExecuteStrategy(o3, ts, now)

\* _on_tick of src/optimized_groww_trader.py with a well-formed payload
OptOnTick(price, ts, now) ==
    \E o \in { IF is_market_hours(ts)
               THEN OptProcessTick(OptSelf, price, ts, now)
               ELSE OptSelf } : OptBecomes(o)

\* __init__, l.81-90: the strategy state
OptInitStrategy ==
    /\ opt_pc = "strategy"
    /\ opt' = [opt EXCEPT !.first15_high = 0, !.first15_low = INF,
                          !.first15_done = FALSE, !.context_set = FALSE,
                          !.breakout = "NONE", !.breakout_price = 0,
                          !.breakout_time = NONE_TIME,
                          !.retest_touch_occurred = FALSE,
                          !.retest_confirmed = FALSE,
                          !.retest_time = NONE_TIME]
    /\ opt_pc' = "data"
    /\ UNCHANGED opt_candle_data

\* __init__, l.93-95: the data tracking
OptInitData ==
    /\ opt_pc = "data"
    /\ opt' = [opt EXCEPT !.current_price = 0, !.last_update = NONE_TIME]
    /\ opt_candle_data' = <<>>
    /\ opt_pc' = "performance"

\* __init__, l.98-99: the performance tracking
OptInitPerformance ==
    /\ opt_pc = "performance"
    /\ opt' = [opt EXCEPT !.tick_count = 0]
    /\ opt_pc' = "done"
    /\ UNCHANGED opt_candle_data

----------------------------------------------------------------------------
(* The notifier of src/telegram_notifier.py.  One event loop runs on the   *)
(* notifier's thread: it runs the callbacks handed to call_soon_threadsafe *)
(* in the order they were handed over, and the consumer task between two   *)
(* of its awaits.  A message is the number of the send_message call that   *)
(* carried it, with the priority it was given; its text is not modelled.   *)

\* the priority argument of send_message
Priorities == {"low", "normal", "high"}

\* how many times send_message is called
MaxMessages == 3

\* what a call of bot.send_message does: it returns, raises
\* telegram.error.BadRequest, or raises another exception
Outcomes == {"ok", "bad_request", "error"}

\* the notifier after __init__ and start(): the loop runs, the consumer is
\* scheduled and has not run yet; token and chat_id say whether
\* TELEGRAM_BOT_TOKEN and TELEGRAM_CHAT_ID are set
NotifierStarted(token, chat_id) ==
    [token |-> token, chat_id |-> chat_id,
     ready |-> <<>>,        \* the put_nowait callbacks the loop has to run
     queue |-> <<>>,        \* self._queue
     pc |-> "start",        \* where the consumer task stands
     message |-> <<>>,      \* the message the consumer holds, if any
     returns |-> <<>>,      \* what each call of send_message returned
     accepted |-> <<>>,     \* the messages queued, in the order of the calls
     attempted |-> <<>>,    \* the messages sent to the bot, in that order
     retried |-> {},        \* those sent a second time as plain text
     delivered |-> {},      \* those a send returned for
     dropped |-> {}]        \* those given up

\* send_message
send_message(n, priority) ==
    IF ~n.token \/ ~n.chat_id
    THEN [n EXCEPT !.returns = Append(@, FALSE)]
    ELSE LET item == [id |-> Len(n.returns) + 1, priority |-> priority]
         IN  [n EXCEPT !.ready = Append(@, item),
                       !.accepted = Append(@, item),
                       !.returns = Append(@, TRUE)]

\* self._queue.put_nowait, run by the loop
put_nowait(n) ==
    [n EXCEPT !.queue = Append(@, Head(n.ready)), !.ready = Tail(@)]

\* a queue that hands out the most urgent of its messages
QueueGetByPriority(q) ==
    LET rank == [p \in Priorities |->
                   IF p = "high" THEN 2 ELSE IF p = "normal" THEN 1 ELSE 0]
    IN  CHOOSE i \in 1..Len(q) :
            \A j \in 1..Len(q) :
                \/ rank[q[i].priority] > rank[q[j].priority]
                \/ rank[q[i].priority] = rank[q[j].priority] /\ i <= j

\* the position self._queue.get() takes from: asyncio.Queue is first in,
\* first out
QueueGet(q) == 1

\* _message_consumer up to the loop: without a token it returns
ConsumerStart(n) ==
    IF ~n.token THEN [n EXCEPT !.pc = "exited"] ELSE [n EXCEPT !.pc = "get"]

\* message, priority = await self._queue.get()
ConsumerGet(n) ==
    LET i == QueueGet(n.queue)
    IN  [n EXCEPT !.message = <<n.queue[i]>>,
                  !.queue = SubSeq(n.queue, 1, i - 1)
                            \o SubSeq(n.queue, i + 1, Len(n.queue)),
                  !.pc = "send"]

\* the MarkdownV2 send of the inner try
ConsumerSend(n, outcome) ==
    LET id == n.message[1].id
        n1 == [n EXCEPT !.attempted = Append(@, n.message[1])]
    IN  IF outcome = "ok"
        THEN [n1 EXCEPT !.delivered = @ \cup {id}, !.pc = "rate_sleep"]
        ELSE IF outcome = "bad_request" THEN [n1 EXCEPT !.pc = "retry"]
        ELSE [n1 EXCEPT !.dropped = @ \cup {id}, !.pc = "rate_sleep"]

\* a consumer that a failed plain-text send ends
ConsumerRetryOrExit(n, outcome) ==
    LET id == n.message[1].id
        n1 == [n EXCEPT !.retried = @ \cup {id}]
    IN  IF outcome = "ok"
        THEN [n1 EXCEPT !.delivered = @ \cup {id}, !.pc = "rate_sleep"]
        ELSE [n1 EXCEPT !.dropped = @ \cup {id}, !.pc = "exited"]

\* the plain-text send of the BadRequest handler; what it raises reaches
\* the outer except, which sleeps five seconds
ConsumerRetry(n, outcome) ==
    LET id == n.message[1].id
        n1 == [n EXCEPT !.retried = @ \cup {id}]
    IN  IF outcome = "ok"
        THEN [n1 EXCEPT !.delivered = @ \cup {id}, !.pc = "rate_sleep"]
        ELSE [n1 EXCEPT !.dropped = @ \cup {id}, !.pc = "error_sleep"]

\* the end of either sleep: the loop comes round to the next get
ConsumerWakes(n) == [n EXCEPT !.message = <<>>, !.pc = "get"]

----------------------------------------------------------------------------
(* Construction *)

\* what fetch_historical_data returns: {} before 09:30, else the four levels,
\* each defaulted (0, inf) when its fetch found no candles or failed
NO_HISTORY == [first_5min_high |-> 0, first_5min_low |-> INF,
               first_15min_high |-> 0, first_15min_low |-> INF]

History(h5, l5, h15, l15) ==
    [first_5min_high |-> h5, first_5min_low |-> l5,
     first_15min_high |-> h15, first_15min_low |-> l15]

HistoricalResults ==
    { History(100, 100, 100, 100), History(0, INF, 101, 101), NO_HISTORY }

\* __init__ with no historical data (started before 09:30)
InitFresh ==
    /\ first15_high = 0
    /\ first15_low = INF
    /\ first15_done = FALSE
    /\ first_5min_high = 0
    /\ first_5min_low = INF
    /\ first_15min_high = 0
    /\ first_15min_low = INF
    /\ first_5min_done = FALSE
    /\ first_15min_done = FALSE

\* __init__ with the dictionary fetch_historical_data returned at/after 09:30
InitSeeded(h) ==
    /\ first_5min_high = h.first_5min_high
    /\ first_5min_low = h.first_5min_low
    /\ first_15min_high = h.first_15min_high
    /\ first_15min_low = h.first_15min_low
    /\ first_5min_done = TRUE
    /\ first_15min_done = TRUE
    /\ first15_done = TRUE
    /\ first15_high = h.first_15min_high
    /\ first15_low = h.first_15min_low

\* the fields __init__ assigns whatever the historical data
InitEngine ==
    /\ context_set = FALSE
    /\ breakout = "NONE"
    /\ breakout_price = 0
    /\ breakout_time = NONE_TIME
    /\ retest_time = NONE_TIME
    /\ window_prices = {}
    /\ returned = FALSE
    /\ cycle_log = <<>>
    /\ retest_touch_occurred = FALSE
    /\ retest_confirmed = FALSE
    /\ current_price = 0
    /\ last_update = NONE_TIME
    /\ candle_data = <<>>
    /\ last_signal_time = NONE_TIME
    /\ first_15_printed = FALSE
    /\ events = <<>>
    /\ sent = <<>>
    /\ inspected = <<>>
    /\ signal_clock = NONE_TIME
    /\ match_clock = NONE_TIME
    /\ confirm_bucket = NONE_TIME
    /\ confirm_dir = "NONE"
    /\ opt_candle_data = <<>>
    /\ notification_5min_sent = FALSE
    /\ notification_15min_sent = FALSE
    /\ running = TRUE
    /\ run_pc = "start"
    /\ feed_pc = "check"
    /\ notifier_down = FALSE
    /\ send_failed = FALSE
    /\ payload_kind = "ok"
    /\ writers = {}
    /\ tick_time = NONE_TIME

\* the engine constructed next to an optimized engine that is constructed too
\* and a notifier that has been started with both credentials
InitCommon ==
    /\ InitEngine
    /\ opt = OptConstructed
    /\ opt_pc = "done"
    /\ notifier = NotifierStarted(TRUE, TRUE)

Init ==
    /\ InitCommon
    /\ \/ InitFresh
       \/ \E h \in HistoricalResults : InitSeeded(h)

----------------------------------------------------------------------------
(* The general specification: ticks of any price, in any order of          *)
(* timestamps, replayed in one burst (within one second of wall-clock time)*)

Prices == {100, 101}

TickTimes == { At(9, 14, 59), At(9, 29, 10), At(9, 30, 40), At(9, 31, 5) }

WallClock == { At(9, 30, 0), At(9, 31, 40), At(9, 35, 0),
               SECONDS_PER_DAY + At(9, 31, 40) }

\* datetime.now(IST) does not run behind a time the engine has stored: an
\* earlier reading, or the trade time of a tick already processed
ClockReading(now) ==
    /\ last_signal_time = NONE_TIME \/ now >= last_signal_time
    /\ retest_time = NONE_TIME \/ now >= retest_time
    /\ breakout_time = NONE_TIME \/ now >= breakout_time

\* the index data get_index_value() returns, as far as _on_tick reads it
Payload(value, tsInMillis) == [value |-> value, tsInMillis |-> tsInMillis]

PayloadKind(data) ==
    IF data.value = MISSING THEN "no_price"
    ELSE IF data.value = GARBLED THEN "bad_price"
    ELSE IF data.tsInMillis = GARBLED THEN "bad_timestamp"
    ELSE IF data.tsInMillis = MISSING THEN "no_timestamp"
    ELSE "ok"

\* the parsing block of _on_tick: no instrument with a 'value' returns, a
\* value or a tsInMillis that cannot be converted raises and returns, and a
\* payload without tsInMillis keeps the default timestamp datetime.now(IST)
ParseTick(data, now) ==
    IF data.value \in {MISSING, GARBLED} \/ data.tsInMillis = GARBLED
    THEN [ok |-> FALSE, price |-> 0, timestamp |-> now]
    ELSE [ok |-> TRUE, price |-> data.value,
          timestamp |-> IF data.tsInMillis = MISSING THEN now
                        ELSE data.tsInMillis]

\* the fields of the engine that the strategy keeps
EngineFields(s) ==
    <<s.current_price, s.last_update, s.context_set, s.candle_data,
      s.first15_high, s.first15_low, s.first15_done, s.breakout,
      s.breakout_price, s.breakout_time, s.retest_touch_occurred,
      s.retest_confirmed, s.retest_time, s.last_signal_time>>

\* thread has run a method that left the engine as s
WrittenBy(thread, s) ==
    writers' = IF EngineFields(s) # EngineFields(Self)
               THEN writers \cup {thread} ELSE writers

\* _on_tick, called on the feed thread
OnTickData(data, now) ==
    /\ ClockReading(now)
    /\ payload_kind' = PayloadKind(data)
    /\ LET tick == ParseTick(data, now)
           after == IF tick.ok /\ is_market_hours(tick.timestamp)
                    THEN ProcessTick(Self, tick.price, tick.timestamp, now)
                    ELSE Self
       IN  \E s \in {after} : Becomes(s) /\ WrittenBy("feed", s)

\* _on_tick with a well-formed payload
OnTick(price, ts, now) == OnTickData(Payload(price, ts), now)

\* the wall-clock time of the burst
ReplayClock == At(9, 35, 0)

Next == \E price \in Prices, ts \in TickTimes :
            /\ Len(FoldCandle(candle_data, price, ts)) <= MaxCandles
            /\ OnTick(price, ts, ReplayClock)
            /\ UNCHANGED <<opt_vars, env_vars, tick_time, notifier>>

Spec == Init /\ [][Next]_vars

----------------------------------------------------------------------------
(* The session specification: one trading morning started before 09:30,    *)
(* the feed delivering its ticks in order of time on a grid of instants,   *)
(* the wall clock read after the last of them                              *)

SessionPrices == {90, 100, 101}

SessionTimes ==
    { At(9, 29, 0), At(9, 29, 30),
      At(9, 30, 0), At(9, 30, 15), At(9, 30, 30), At(9, 30, 45),
      At(9, 31, 0), At(9, 31, 30),
      At(9, 32, 0), At(9, 32, 30),
      At(9, 33, 0) }

SessionClock == { At(9, 33, 0) }

\* started before 09:30, or restarted later with the morning's range
InitSession ==
    /\ InitCommon
    /\ InitFresh \/ InitSeeded(History(100, 90, 100, 90))

NextSession ==
    \E price \in SessionPrices, ts \in SessionTimes, now \in SessionClock :
        /\ last_update = NONE_TIME \/ ts > last_update
        /\ first_15min_done => TimeOfDay(ts) >= first_15_end_time
        /\ OnTick(price, ts, now)
        /\ UNCHANGED <<opt_vars, env_vars, tick_time, notifier>>

SpecSession == InitSession /\ [][NextSession]_vars

----------------------------------------------------------------------------
(* The one-hour specification: both engines fed the same quiet feed, a     *)
(* tick every 30 or 60 seconds from 09:30 on, for more than 60 minutes     *)

HourPrices == {100}

HourStart == At(9, 30, 0)

NextHour ==
    \E price \in HourPrices, step \in {30, 60} :
        LET ts == IF last_update = NONE_TIME THEN HourStart
                  ELSE last_update + step
        IN  /\ ts <= HourStart + 60 * MaxMinutes
            /\ OnTick(price, ts, HourStart)
            /\ OptOnTick(price, ts, HourStart)
            /\ UNCHANGED <<opt_pc, env_vars, tick_time, notifier>>

SpecHour == Init /\ [][NextHour]_vars

----------------------------------------------------------------------------
(* The clock specification: a restart with the range seeded at 100, the    *)
(* feed delivering its ticks in order of time, each processed at any       *)
(* wall-clock time that does not run backwards                             *)

ClockTimes ==
    { At(9, 30, 0), At(9, 30, 15), At(9, 30, 30), At(9, 30, 45),
      At(9, 31, 0), At(9, 31, 30) }
    \cup { At(9, 32, 5 * k) : k \in 0..8 }

InitClock ==
    /\ InitCommon
    /\ InitSeeded(History(100, 100, 100, 100))

NextClock ==
    \E price \in Prices, ts \in ClockTimes, now \in WallClock :
        /\ last_update = NONE_TIME \/ ts > last_update
        /\ OnTick(price, ts, now)
        /\ UNCHANGED <<opt_vars, env_vars, tick_time, notifier>>

SpecClock == InitClock /\ [][NextClock]_vars

----------------------------------------------------------------------------
(* The strike specification: a restart with the range seeded at one level  *)
(* near a half-way point between strikes, the feed moving one point around *)
(* that level, in order of time                                            *)

StrikeBases == { b \in 2..MaxStrikeBase : b % STRIKE_STEP \in 23..27 }

StrikeTimes ==
    { At(9, 30, 0), At(9, 30, 15), At(9, 30, 30), At(9, 30, 45),
      At(9, 31, 0), At(9, 31, 30), At(9, 32, 0) }

StrikeClock == At(9, 33, 0)

InitStrike ==
    /\ InitCommon
    /\ \E b \in StrikeBases : InitSeeded(History(b, b, b, b))

NextStrike ==
    \E d \in {-1, 0, 1}, ts \in StrikeTimes :
        /\ last_update = NONE_TIME \/ ts > last_update
        /\ OnTick(first15_high + d, ts, StrikeClock)
        /\ UNCHANGED <<opt_vars, env_vars, tick_time, notifier>>

SpecStrike == InitStrike /\ [][NextStrike]_vars

----------------------------------------------------------------------------
(* The run specification: the program after construction, restarted with   *)
(* the range seeded at 100.  The main thread runs run(), the feed thread   *)
(* runs _run_feed and receives, while consume() is in progress, payloads   *)
(* of any shape in order of time; the notifier may go down; stop() is      *)
(* called once run() is in its loop (its one call site is inside run()).   *)

\* _print_market_levels; its try/except swallows what a send raises, the
\* rest of the method being skipped
PrintMarketLevels(s, now) ==
    LET due5 == /\ ~s.notification_5min_sent
                /\ Hour(now) = 9 /\ Minute(now) >= 21
                /\ s.first_5min_high > 0 /\ s.first_5min_low < INF
        s1 == IF due5 THEN [s EXCEPT !.notification_5min_sent = TRUE] ELSE s
        due15 == /\ ~s1.notification_15min_sent
                 /\ Hour(now) = 9 /\ Minute(now) >= 31
                 /\ s1.first_15min_high > 0 /\ s1.first_15min_low < INF
    IN  IF due5 /\ s.notifier_down THEN s1
        ELSE IF due15 THEN [s1 EXCEPT !.notification_15min_sent = TRUE]
        ELSE s1

\* the loop of _monitor_prices in the place of the loop of run(): the main
\* thread processing the price it polled
RunLoopBodyPolling(s, now) ==
    IF s.current_price = 0 THEN s
    ELSE ProcessTick(PrintMarketLevels(s, now), s.current_price + 1, now, now)

\* one iteration of the main loop of run(): without a price it sleeps; the
\* 5-minute log and _send_monitoring_notification read the engine and write
\* nothing
RunLoopBody(s, now) ==
    IF s.current_price = 0 THEN s ELSE PrintMarketLevels(s, now)

\* a feed loop that never looks at the flag
RunFeedContinuesAlways(flag) == TRUE

\* while self.running, in _run_feed
RunFeedContinues(flag) == flag

RunPrices == {100, 101}

RunTimes == { At(9, 30, 0), At(9, 30, 30), At(9, 31, 0), At(9, 32, 0) }

RunClock == At(9, 33, 0)

RunPayloads ==
    { Payload(v, t) : v \in RunPrices \cup {MISSING, GARBLED},
                      t \in RunTimes \cup {MISSING, GARBLED} }

InitRun ==
    /\ InitCommon
    /\ InitSeeded(History(100, 100, 100, 100))

\* run() up to its main loop: the flag is raised again and the wait for a
\* current_price attribute ends at once, __init__ having set it
RunStart ==
    /\ run_pc = "start"
    /\ running' = TRUE
    /\ run_pc' = "loop"
    /\ UNCHANGED feed_pc

\* an iteration of the main loop
RunLoop ==
    /\ run_pc = "loop"
    /\ running
    /\ LET after == RunLoopBody(Self, RunClock)
       IN  Becomes(after) /\ WrittenBy("main", after)
    /\ UNCHANGED <<running, run_pc, feed_pc, payload_kind>>

\* KeyboardInterrupt in the main loop: stop(), then break
RunInterrupted ==
    /\ run_pc = "loop"
    /\ running
    /\ running' = FALSE
    /\ run_pc' = "done"
    /\ UNCHANGED feed_pc

\* stop() called from outside the two loops
Stop ==
    /\ run_pc = "loop"
    /\ running
    /\ running' = FALSE
    /\ UNCHANGED <<run_pc, feed_pc>>

\* the main loop finds the flag down
RunExit ==
    /\ run_pc = "loop"
    /\ ~running
    /\ run_pc' = "done"
    /\ UNCHANGED <<running, feed_pc>>

\* the test of the while loop of _run_feed
FeedCheck ==
    /\ feed_pc = "check"
    /\ feed_pc' = IF RunFeedContinues(running) THEN "consume" ELSE "done"
    /\ UNCHANGED <<running, run_pc>>

\* consume() returns
FeedReturns ==
    /\ feed_pc = "consume"
    /\ feed_pc' = "check"
    /\ UNCHANGED <<running, run_pc>>

\* consume() raises: the loop logs and sleeps 5 seconds
FeedDisconnects ==
    /\ feed_pc = "consume"
    /\ feed_pc' = "backoff"
    /\ UNCHANGED <<running, run_pc>>

\* the sleep is over
FeedBackoffEnds ==
    /\ feed_pc = "backoff"
    /\ feed_pc' = "check"
    /\ UNCHANGED <<running, run_pc>>

\* steps of the two loops that touch no field of the engine
ControlStep ==
    /\ \/ RunStart \/ RunInterrupted \/ Stop \/ RunExit
       \/ FeedCheck \/ FeedReturns \/ FeedDisconnects \/ FeedBackoffEnds
    /\ Becomes(Self)
    /\ UNCHANGED <<notifier_down, payload_kind, writers, opt_vars, tick_time,
                   notifier>>

\* consume() delivers a payload to _on_tick
FeedTick ==
    /\ feed_pc = "consume"
    /\ \E data \in RunPayloads :
          /\ LET tick == ParseTick(data, RunClock)
             IN  tick.ok => (last_update = NONE_TIME
                             \/ tick.timestamp > last_update)
          /\ OnTickData(data, RunClock)
    /\ UNCHANGED <<opt_vars, env_vars, tick_time, notifier>>

\* the notifier's event loop stops: every later send raises
NotifierBreaks ==
    /\ ~notifier_down
    /\ notifier_down' = TRUE
    /\ Becomes(Self)
    /\ UNCHANGED <<running, run_pc, feed_pc, payload_kind, writers,
                   opt_vars, tick_time, notifier>>

NextRun ==
    \/ ControlStep
    \/ RunLoop /\ UNCHANGED <<notifier_down, opt_vars, tick_time, notifier>>
    \/ FeedTick
    \/ NotifierBreaks

\* stop() has closed the feed (self.feed.close()): the consume() in progress
\* ends
FeedClosed == ~running /\ (FeedReturns \/ FeedDisconnects)

\* both threads keep running: a loop that can make its next test makes it,
\* and a closed feed ends its consume()
FairRun ==
    /\ WF_vars(RunExit /\ ControlStep)
    /\ WF_vars(FeedCheck /\ ControlStep)
    /\ WF_vars(FeedBackoffEnds /\ ControlStep)
    /\ WF_vars(FeedClosed /\ ControlStep)

SpecRun == InitRun /\ [][NextRun]_vars /\ FairRun

----------------------------------------------------------------------------
(* Reading the per-tick records *)

Did(e) == \E i \in 1..Len(events) : events[i] = e
DidNext(e) == \E i \in 1..Len(events') : events'[i] = e
SignalsIn(msgs) == { i \in 1..Len(msgs) : msgs[i].kind = "signal" }
SentKind(k) == \E i \in 1..Len(sent) : sent[i].kind = k
TrailingCandle == candle_data[Len(candle_data)]
ValidRange == first15_high > 0 /\ first15_low < INF

----------------------------------------------------------------------------
(* C1: processing one tick performs at most one phase transition (range    *)
(* captured, breakout set, retest touch, retest confirmed, signal/reset),  *)
(* the seeded first tick with its late-start breakout check included.      *)
C1_OneTransitionPerTick == Len(events) <= 1

\* the seeded first tick set the breakout in _set_initial_context and
\* _execute_strategy then ran the retest check without a second transition
C1_Witness ==
    /\ SentKind("immediate_breakout")
    /\ events = <<"breakout">>
    /\ Len(candle_data) = 1

(* C2: the call of _confirm_retest that records the touch                  *)
(* (retest_touch_occurred false -> true) never also sets retest_confirmed, *)
(* even when the trailing candle has its low at/below the level and its    *)
(* close beyond it; the confirmation comes on a later tick.                *)
C2_TouchNeverConfirms ==
    [][(~retest_touch_occurred /\ retest_touch_occurred')
          => (~retest_confirmed' /\ ~DidNext("confirm"))]_vars

\* the touch was recorded on a candle that already closes beyond the level
C2_Witness ==
    /\ Did("touch")
    /\ breakout = "BUY"
    /\ TrailingCandle.low <= first15_high
    /\ TrailingCandle.close > first15_high
    /\ ~retest_confirmed

\* a step leaves every candle but the trailing one as it was (an append above
\* 60 entries shifts them by one)
CandlesFrozenStep ==
    \/ /\ Len(candle_data') >= Len(candle_data)
       /\ \A i \in 1..(Len(candle_data) - 1) : candle_data'[i] = candle_data[i]
    \/ /\ Len(candle_data) = MAX_CANDLES
       /\ Len(candle_data') = MAX_CANDLES
       /\ \A i \in 2..Len(candle_data) : candle_data'[i - 1] = candle_data[i]

(* C3: a signal never fires using the still-forming candle: when the entry *)
(* pattern matches at least 3 candles are stored and the candles read are  *)
(* those at positions -2 and -3, and no tick changes a candle that is not  *)
(* the trailing one.                                                       *)
C3_SignalUsesCompletedCandles ==
    [][/\ DidNext("entry") =>
            /\ Len(candle_data') >= 3
            /\ inspected' = <<Len(candle_data') - 1, Len(candle_data') - 2>>
       /\ CandlesFrozenStep]_vars

\* a signal was emitted from the two candles before the one the tick opened
C3_Witness ==
    /\ Did("entry")
    /\ SignalsIn(sent) # {}
    /\ Len(candle_data) >= 3
    /\ TrailingCandle.open = current_price
    /\ TrailingCandle.close <= TrailingCandle.open

\* C4 as claimed: of any two matches less than 300 s apart the second is
\* dropped
C4_Original ==
    [][(/\ DidNext("entry")
        /\ match_clock # NONE_TIME
        /\ signal_clock' - match_clock < signal_cooldown_period)
          => SignalsIn(sent') = {}]_vars

(* C4: cooldown: an entry-pattern match less than signal_cooldown_period   *)
(* (300 s) of wall-clock time after the match that emitted the last signal *)
(* emits nothing and leaves last_signal_time alone (dropped, not queued:   *)
(* a signal is only ever sent by a tick whose pattern matched), while the  *)
(* first match emits exactly one signal.                                   *)
C4_CooldownDropsSecond ==
    [][/\ (/\ DidNext("entry")
           /\ last_signal_time # NONE_TIME
           /\ signal_clock' - last_signal_time < signal_cooldown_period)
          => (SignalsIn(sent') = {} /\ last_signal_time' = last_signal_time)
       /\ (DidNext("entry") /\ last_signal_time = NONE_TIME)
          => (Cardinality(SignalsIn(sent')) = 1
              /\ last_signal_time' = signal_clock')
       /\ SignalsIn(sent') # {} => DidNext("entry")]_vars

\* a second match 100 s after the first signal was dropped
C4_Witness ==
    /\ Did("entry")
    /\ SignalsIn(sent) = {}
    /\ last_signal_time # NONE_TIME
    /\ signal_clock - last_signal_time = 100

(* C5: once first15_done is true (by the window logic or by seeding) it    *)
(* never becomes false and first15_high / first15_low are never changed by *)
(* a later tick, whatever its timestamp.                                   *)
C5_RangeMonotone ==
    [][first15_done =>
          /\ first15_done'
          /\ first15_high' = first15_high
          /\ first15_low' = first15_low]_vars

\* a tick inside 09:15-09:30 with a price above the range was processed
\* after the range was captured
C5_Witness ==
    /\ first15_done
    /\ ValidRange
    /\ last_update # NONE_TIME
    /\ in_first15(last_update)
    /\ current_price > first15_high
    /\ Len(candle_data) >= 2

(* C6: breakout direction, once BUY or SELL, does not change to the other  *)
(* direction unless _reset_strategy set it back to None in between,        *)
(* wherever the price moves.                                               *)
C6_NoDirectionFlip ==
    [][breakout # "NONE" => breakout' \in {breakout, "NONE"}]_vars

\* after a BUY breakout the price fell through the low of the range
C6_Witness ==
    /\ breakout = "BUY"
    /\ ValidRange
    /\ current_price < first15_low
    /\ events = <<>>
    /\ retest_touch_occurred

(* C7: for all tick sequences, out-of-order and duplicated timestamps      *)
(* included, the stored candles are strictly ascending by bucket_start     *)
(* (so no two candles share a bucket).                                     *)
C7_CandlesAscending ==
    \A i \in 1..Len(candle_data) : \A j \in 1..Len(candle_data) :
        i < j => candle_data[i].timestamp < candle_data[j].timestamp

\* the step appended a candle to a full list cd and evicted its front
EvictsOldest(cd, cdNext) ==
    /\ Len(cdNext) = MAX_CANDLES
    /\ \A i \in 1..(MAX_CANDLES - 1) : cdNext[i] = cd[i + 1]
    /\ cdNext[MAX_CANDLES].timestamp = MinuteBucket(last_update')

(* C8: after every processed tick the stored candle sequence has at most   *)
(* 60 entries, and when a 61st candle is appended it is the oldest (front) *)
(* candle that is evicted; in both engines.                                *)
C8_AtMostSixtyCandles ==
    [][/\ Len(candle_data') <= MAX_CANDLES
       /\ Len(opt_candle_data') <= MAX_CANDLES
       /\ (/\ Len(candle_data) = MAX_CANDLES
           /\ TrailingCandle.timestamp # MinuteBucket(last_update'))
          => /\ EvictsOldest(candle_data, candle_data')
             /\ EvictsOldest(opt_candle_data, opt_candle_data')]_vars

\* the candle of 09:30 and the one after it have been evicted
C8_Witness ==
    /\ Len(candle_data) = MAX_CANDLES
    /\ candle_data[1].timestamp = HourStart + 120
    /\ Len(opt_candle_data) = MAX_CANDLES
    /\ opt_candle_data[1].timestamp = HourStart + 120

WindowRange ==
    first15_done /\ ~first_15min_done /\ ValidRange
    /\ first15_low < first15_high

IsGreenAbove(c, level) == c.close > c.open /\ c.close > level

\* a BUY retest was confirmed, two whole green candles closing above H
\* followed the confirmation minute, and this step is the first tick of a
\* later minute
C10_Scenario ==
    /\ WindowRange
    /\ confirm_dir = "BUY"
    /\ Len(candle_data) >= 2
    /\ candle_data[Len(candle_data) - 1].timestamp > confirm_bucket
    /\ IsGreenAbove(candle_data[Len(candle_data) - 1], first15_high)
    /\ IsGreenAbove(candle_data[Len(candle_data)], first15_high)
    /\ Len(candle_data') = Len(candle_data) + 1

\* the step emitted exactly one BUY signal priced at the close of the last
\* completed candle
C10_EmitsBuy ==
    /\ Cardinality(SignalsIn(sent')) = 1
    /\ \E i \in SignalsIn(sent') :
          sent'[i] = Msg("signal", "BUY",
                         candle_data[Len(candle_data)].close,
                         OptimalStrike(candle_data[Len(candle_data)].close),
                         "CE")

ClosedBeyond(c, dir) ==
    \/ dir = "BUY" /\ c.close > first15_high
    \/ dir = "SELL" /\ c.close < first15_low

(* C11: retest_confirmed becomes true only when a candle that is already   *)
(* closed (no longer the trailing, still-forming candle) has a close       *)
(* beyond the broken level: above the range high for BUY, below the range  *)
(* low for SELL.                                                           *)
C11_ConfirmedByClosedCandle ==
    [][(~retest_confirmed /\ retest_confirmed') =>
          \E i \in 1..(Len(candle_data') - 1) :
              ClosedBeyond(candle_data'[i], breakout')]_vars

(* C12: whenever the entry pattern matches while the retest is confirmed,  *)
(* at the end of that tick breakout = None, breakout_price = 0,            *)
(* breakout_time = None, retest_touch_occurred = false, retest_confirmed = *)
(* false and retest_time = None, whether the signal was emitted or         *)
(* suppressed by the cooldown.                                             *)
C12_MatchResets ==
    [][DidNext("entry") =>
          /\ retest_confirmed
          /\ breakout' = "NONE"
          /\ breakout_price' = 0
          /\ breakout_time' = NONE_TIME
          /\ ~retest_touch_occurred'
          /\ ~retest_confirmed'
          /\ retest_time' = NONE_TIME]_vars

\* a match suppressed by the cooldown has reset the cycle
C12_Witness ==
    /\ Did("entry")
    /\ SignalsIn(sent) = {}
    /\ last_signal_time # NONE_TIME
    /\ breakout = "NONE"
    /\ breakout_time = NONE_TIME
    /\ retest_time = NONE_TIME
    /\ ~retest_touch_occurred
    /\ ~retest_confirmed

(* C13: a matched entry signal is suppressed if and only if                *)
(* last_signal_time is set and fewer than 300 seconds of wall-clock time   *)
(* have elapsed since it; a match 300 s or more after the last emitted     *)
(* signal (more than 24 hours later included) is emitted, and the very     *)
(* first match is never suppressed.                                        *)
C13_SuppressedIffWithinCooldown ==
    [][DidNext("entry") =>
          (SignalsIn(sent') = {}
             <=> /\ last_signal_time # NONE_TIME
                 /\ signal_clock' - last_signal_time
                       < signal_cooldown_period)]_vars

(* C14: while the range is captured and no breakout is active, a tick sets *)
(* breakout = BUY iff price > first15_high, otherwise SELL iff price <     *)
(* first15_low, otherwise leaves it None; a price equal to either bound    *)
(* never produces a breakout, and when both bounds are violated BUY is     *)
(* chosen.                                                                 *)
C14_StrictBreakout ==
    [][(first15_done /\ breakout = "NONE") =>
          breakout' = IF current_price' > first15_high THEN "BUY"
                      ELSE IF current_price' < first15_low THEN "SELL"
                      ELSE "NONE"]_vars

\* a tick priced exactly at the captured high was processed while watching
\* for a breakout and produced none
C14_Witness ==
    /\ first15_done
    /\ ValidRange
    /\ context_set
    /\ Len(candle_data) >= 2
    /\ current_price = first15_high
    /\ events = <<>>
    /\ breakout = "NONE"

(* C15: an entry pattern matches only if the two inspected candles are     *)
(* both green (close > open) with both closes strictly above first15_high  *)
(* and breakout = BUY, or both red (close < open) with both closes         *)
(* strictly below first15_low and breakout = SELL; a flat candle, a close  *)
(* at the level, mixed colours or the colour opposite to the direction     *)
(* never match.                                                            *)
C15_EntryPattern ==
    [][DidNext("entry") =>
          /\ Len(inspected') = 2
          /\ LET a == candle_data'[inspected'[1]]
                 b == candle_data'[inspected'[2]]
             IN  \/ /\ breakout = "BUY"
                    /\ a.close > a.open /\ b.close > b.open
                    /\ a.close > first15_high /\ b.close > first15_high
                 \/ /\ breakout = "SELL"
                    /\ a.close < a.open /\ b.close < b.open
                    /\ a.close < first15_low /\ b.close < first15_low]_vars

\* awaiting a BUY entry, the tick found a green candle above the high next
\* to a flat one above the high and did not match
C15_Witness ==
    /\ retest_confirmed
    /\ breakout = "BUY"
    /\ ValidRange
    /\ events = <<>>
    /\ Len(candle_data) >= 3
    /\ IsGreenAbove(candle_data[Len(candle_data) - 1], first15_high)
    /\ candle_data[Len(candle_data) - 2].close
          = candle_data[Len(candle_data) - 2].open
    /\ candle_data[Len(candle_data) - 2].close > first15_high

Distance(a, b) == IF a >= b THEN a - b ELSE b - a

(* C16: for every emitted signal the strike is a multiple of 50 that is a  *)
(* nearest multiple of 50 to entry_price (|strike - entry_price| <= 25),   *)
(* and the option side is CE exactly when the breakout direction is BUY    *)
(* and PE exactly when it is SELL.                                         *)
C16_StrikeAndSide ==
    \A i \in SignalsIn(sent) :
        /\ sent[i].strike % STRIKE_STEP = 0
        /\ Distance(sent[i].strike, sent[i].price) <= 25
        /\ confirm_dir \in {"BUY", "SELL"}
        /\ sent[i].option_type = "CE" <=> confirm_dir = "BUY"
        /\ sent[i].option_type = "PE" <=> confirm_dir = "SELL"

\* a SELL signal priced half-way between two strikes
C16_Witness ==
    \E i \in SignalsIn(sent) :
        /\ sent[i].price % STRIKE_STEP = 25
        /\ sent[i].option_type = "PE"
        /\ confirm_dir = "SELL"

\* the window logic captured the range with the sentinel bounds
DegenerateRange ==
    first15_done /\ ~first_15min_done
    /\ first15_high = 0 /\ first15_low = INF

(* C17: degenerate range: if no tick was processed inside 09:15-09:30      *)
(* before the first tick at/after 09:30, that tick still sets first15_done *)
(* with the sentinel bounds (high 0, low +infinity), and from then on, for *)
(* positive prices, no retest touch is recorded, the entry pattern never   *)
(* matches and no entry signal is ever emitted.                            *)
C17_DegenerateRange ==
    [][/\ (/\ ~first15_done
           /\ window_prices = {}
           /\ last_update' # NONE_TIME
           /\ TimeOfDay(last_update') >= first_15_end_time)
          => DegenerateRange'
       /\ DegenerateRange =>
             /\ DegenerateRange'
             /\ ~retest_touch_occurred'
             /\ ~DidNext("entry")
             /\ SignalsIn(sent') = {}
             /\ last_signal_time' = NONE_TIME]_vars

\* with the sentinel range a BUY breakout is pending over two whole green
\* candles, untouched
C17_Witness ==
    /\ DegenerateRange
    /\ breakout = "BUY"
    /\ events = <<>>
    /\ Len(candle_data) >= 3
    /\ IsGreenAbove(candle_data[Len(candle_data) - 1], first15_high)
    /\ IsGreenAbove(candle_data[Len(candle_data) - 2], first15_high)
    /\ ~retest_touch_occurred
    /\ last_signal_time = NONE_TIME

(* C18: at construction the opening range is marked captured from history  *)
(* (first15_done true before any tick) only if the historical provider     *)
(* yielded a valid range; with no data the engine starts with first15_done *)
(* false and does not take the sentinels (0, +infinity) for a captured     *)
(* range.                                                                  *)
C18_SeededOnlyWithValidRange ==
    (~context_set /\ first15_done) => ValidRange

\* a step leaves every candle that is or becomes a non-trailing one as it was
NonTrailingFrozen ==
    \/ /\ Len(candle_data') = Len(candle_data)
       /\ candle_data # <<>>
       /\ candle_data'[Len(candle_data')].timestamp = TrailingCandle.timestamp
       /\ \A i \in 1..(Len(candle_data) - 1) : candle_data'[i] = candle_data[i]
    \/ /\ Len(candle_data') = Len(candle_data) + 1
       /\ \A i \in 1..Len(candle_data) : candle_data'[i] = candle_data[i]
    \/ /\ Len(candle_data) = MAX_CANDLES
       /\ Len(candle_data') = MAX_CANDLES
       /\ \A i \in 2..Len(candle_data) : candle_data'[i - 1] = candle_data[i]

(* C19: candle refinement: a tick in the same minute as the trailing       *)
(* candle leaves that candle's open unchanged, never lowers its high,      *)
(* never raises its low and makes its close the tick's price; a candle     *)
(* that is no longer the trailing element is never changed again.          *)
C19_CandleRefinement ==
    [][/\ (/\ candle_data # <<>>
           /\ last_update' # NONE_TIME
           /\ TrailingCandle.timestamp = MinuteBucket(last_update'))
          => /\ Len(candle_data') = Len(candle_data)
             /\ LET old == TrailingCandle
                    new == candle_data'[Len(candle_data')]
                IN  /\ new.timestamp = old.timestamp
                    /\ new.open = old.open
                    /\ new.high >= old.high
                    /\ new.low <= old.low
                    /\ new.close = current_price'
                    /\ new.low <= current_price'
                    /\ current_price' <= new.high
       /\ NonTrailingFrozen]_vars

\* the trailing candle opened at 101, dipped to 100 and is back at 101,
\* behind a completed candle
C19_Witness ==
    /\ Len(candle_data) >= 2
    /\ TrailingCandle.open = 101
    /\ TrailingCandle.low = 100
    /\ TrailingCandle.high = 101
    /\ TrailingCandle.close = 101
    /\ current_price = 101

SetMax(S) == CHOOSE x \in S : \A y \in S : y <= x
SetMin(S) == CHOOSE x \in S : \A y \in S : x <= y

(* C20: when the range is captured by the window logic (not seeded) from   *)
(* positive-price ticks, first15_high is the maximum and first15_low the   *)
(* minimum of exactly the prices of the ticks processed with time-of-day   *)
(* in [09:15, 09:30) before capture; the price of the capturing tick is    *)
(* not included, and with at least one in-window tick first15_low <=       *)
(* first15_high.                                                           *)
C20_RangeIsWindowExtremes ==
    (first15_done /\ ~first_15min_done) =>
        IF window_prices = {}
        THEN first15_high = 0 /\ first15_low = INF
        ELSE /\ first15_high = SetMax(window_prices)
             /\ first15_low = SetMin(window_prices)
             /\ first15_low <= first15_high

\* in-window ticks at 90 and 100, captured by a tick at 101
C20_Witness ==
    /\ Did("captured")
    /\ ~first_15min_done
    /\ window_prices = {90, 100}
    /\ current_price = 101
    /\ first15_high = 100
    /\ first15_low = 90

(* C21: on every breakout detection the engine records breakout_price     *)
(* equal to the price of the tick that triggered it (not the range bound)  *)
(* and breakout_time equal to that tick's own timestamp, both in the       *)
(* per-tick detector and in the seeded first-tick check.                   *)
C21_BreakoutRecordsTick ==
    [][(breakout = "NONE" /\ breakout' # "NONE") =>
          /\ breakout_price' = current_price'
          /\ breakout_time' = last_update']_vars

(* C25: the engine calls the notifier at each defined transition point:   *)
(* in the same tick in which the opening range becomes captured by the     *)
(* window logic, a breakout is detected, the retest touch is recorded, the *)
(* retest is confirmed or an entry signal is emitted, at least one message *)
(* is handed to send_telegram_message.                                     *)
C25_NotifiedAtTransitions ==
    (\/ Did("captured") \/ Did("breakout") \/ Did("touch")
     \/ Did("confirm") \/ SignalsIn(sent) # {})
        => sent # <<>>

(* C28: the two candles that justify an entry signal come after the retest *)
(* confirmation: whenever the entry pattern matches, both inspected        *)
(* candles have a bucket_start later than the minute bucket of the tick on *)
(* which retest_confirmed was set.                                         *)
C28_EntryCandlesAfterConfirmation ==
    Did("entry") =>
        \A k \in 1..Len(inspected) :
            candle_data[inspected[k]].timestamp > confirm_bucket

(* C29: the only way an active breakout cycle ends is an entry-pattern     *)
(* match: in every step where breakout changes from BUY/SELL to None the   *)
(* entry pattern matched in that tick while retest_confirmed was true, and *)
(* otherwise the breakout, its price and time and the retest flags are     *)
(* never taken back, wherever the price goes and whatever time elapses.    *)
C29_EndsOnlyByMatch ==
    [][breakout # "NONE" =>
          IF DidNext("entry")
          THEN retest_confirmed /\ breakout' = "NONE"
          ELSE /\ breakout' = breakout
               /\ breakout_price' = breakout_price
               /\ breakout_time' = breakout_time
               /\ retest_touch_occurred => retest_touch_occurred'
               /\ retest_confirmed => retest_confirmed']_vars

\* a confirmed BUY breakout is still pending after the price fell through the
\* low of the range
C29_Witness ==
    /\ breakout = "BUY"
    /\ retest_confirmed
    /\ ValidRange
    /\ current_price < first15_low
    /\ events = <<>>
    /\ Len(candle_data) >= 3

(* C27: a retest touch is recorded only if price actually returned to the *)
(* broken level after the breakout: retest_touch_occurred becomes true for *)
(* a BUY (resp. SELL) breakout only if some tick received strictly after   *)
(* the breakout tick had price <= first15_high (resp. >= first15_low);     *)
(* lows/highs made by ticks of the same minute before the breakout do not  *)
(* count.                                                                  *)
C27_TouchOnlyAfterReturn ==
    [][(~retest_touch_occurred /\ retest_touch_occurred') => returned']_vars

(* C30: every emitted signal is preceded, since the last reset (or start), *)
(* by a breakout detection, then a touch, then a confirmation, each on a   *)
(* distinct earlier tick and in that order, and the signal's direction     *)
(* equals the direction recorded at that breakout; hence a signal is       *)
(* emitted no earlier than the third tick after its breakout tick.         *)
C30_SignalAfterFullCycle ==
    SignalsIn(sent) # {} =>
        /\ Len(cycle_log) = 4
        /\ cycle_log[1].events = <<"breakout">>
        /\ cycle_log[2].events = <<"touch">>
        /\ cycle_log[3].events = <<"confirm">>
        /\ cycle_log[4].events = <<"entry">>
        /\ cycle_log[1].dir \in {"BUY", "SELL"}
        /\ \A k \in 2..4 : cycle_log[k].dir = cycle_log[1].dir
        /\ \A i \in SignalsIn(sent) : sent[i].dir = cycle_log[1].dir

\* a SELL signal at the end of a cycle of four ticks with a transition each
C30_Witness ==
    /\ SignalsIn(sent) # {}
    /\ Len(cycle_log) = 4
    /\ cycle_log[1] = [events |-> <<"breakout">>, dir |-> "SELL"]
    /\ \A i \in SignalsIn(sent) : sent[i].dir = "SELL"
    /\ breakout = "NONE"

TickWithNotifierUp ==
    ProcessTick([Self EXCEPT !.notifier_down = FALSE], current_price',
                last_update', RunClock)

(* C23: a failure (raised exception) of the notifier's send call during    *)
(* tick processing never propagates back to the engine: for every          *)
(* transition point that sends a notification, the tick's candle update,   *)
(* phase transition and cooldown bookkeeping (last_signal_time) end in the *)
(* same state as when the send succeeds.                                   *)
C23_SendFailureIsolated ==
    [][(send_failed' /\ last_update' # last_update) =>
          EngineFields(Self') = EngineFields(TickWithNotifierUp)]_vars

(* C24: a malformed tick (feed payload from which no price or timestamp    *)
(* can be parsed) is dropped by _on_tick without changing any strategy     *)
(* state (current_price, candles, opening range, breakout/retest state,    *)
(* last_signal_time).                                                      *)
C24_MalformedDropped ==
    [][payload_kind' \in {"no_price", "bad_price", "no_timestamp",
                          "bad_timestamp"}
          => EngineFields(Self') = EngineFields(Self)]_vars

C31_PhaseNesting ==
    /\ retest_confirmed => retest_touch_occurred
    /\ retest_touch_occurred => breakout \in {"BUY", "SELL"}
    /\ breakout \in {"BUY", "SELL"} => first15_done
    /\ (breakout_time = NONE_TIME) <=> (breakout = "NONE")
    /\ (retest_time # NONE_TIME) <=> retest_confirmed

\* a confirmed retest, every phase below it in place
C31_Witness ==
    /\ Did("confirm")
    /\ retest_confirmed
    /\ retest_touch_occurred
    /\ breakout = "SELL"
    /\ breakout_time # NONE_TIME
    /\ retest_time # NONE_TIME

(* C32: last_signal_time is written only in a tick that emits a signal: an *)
(* entry match suppressed by the cooldown leaves last_signal_time          *)
(* unchanged, so suppressed matches never extend the cooldown window.      *)
C32_StampedOnlyOnEmission ==
    [][/\ last_signal_time' # last_signal_time => SignalsIn(sent') # {}
       /\ (DidNext("entry") /\ SignalsIn(sent') = {})
             => last_signal_time' = last_signal_time]_vars

\* a match was suppressed at a clock reading later than the stored time of
\* the last signal
C32_Witness ==
    /\ Did("entry")
    /\ SignalsIn(sent) = {}
    /\ last_signal_time # NONE_TIME
    /\ signal_clock > last_signal_time
    /\ breakout = "NONE"

(* C33: the two 15-minute range trackers agree: after every processed      *)
(* tick the range shown in the notifications (first_15min_high,            *)
(* first_15min_low, kept by _update_candle) equals the range the strategy  *)
(* uses (first15_high, first15_low, kept by _track_first_15min), for all   *)
(* tick sequences, out-of-order timestamps and ticks of a later day inside *)
(* 09:15-09:30 included.                                                   *)
C33_TrackersAgree ==
    /\ first_15min_high = first15_high
    /\ first_15min_low = first15_low

----------------------------------------------------------------------------
(* The optimized engine's specification: its constructor runs while the    *)
(* feed thread already delivers ticks, in order of their timestamps, over  *)
(* five minutes from 09:30 on; the wall clock is read after the last tick  *)

\* everything but the optimized engine, the gate's tick and the notifier
fixed_vars ==
    <<first15_high, first15_low, first15_done, context_set, breakout,
      breakout_price, retest_touch_occurred, retest_confirmed,
      current_price, candle_data, first_5min_high, first_5min_low,
      first_15min_high, first_15min_low, first_5min_done,
      first_15min_done, last_signal_time, first_15_printed, events, sent,
      inspected, signal_clock, match_clock, confirm_bucket, confirm_dir,
      last_update, breakout_time, retest_time, window_prices,
      returned, cycle_log, notification_5min_sent,
      notification_15min_sent, send_failed, payload_kind, writers,
      env_vars>>

OptPrices == {100, 101}

OptTimes == { At(9, 30, 0), At(9, 31, 0), At(9, 32, 0), At(9, 33, 0),
              At(9, 33, 30), At(9, 34, 0), At(9, 34, 10), At(9, 34, 20),
              At(9, 34, 30), At(9, 34, 40) }

OptClock == At(9, 35, 0)

\* the feed thread has been started, no field has been assigned
InitOpt ==
    /\ InitEngine
    /\ InitFresh
    /\ opt = [OptConstructed EXCEPT !.tick_count = MISSING]
    /\ opt_pc = "strategy"
    /\ opt_candle_data = <<>>
    /\ notifier = NotifierStarted(TRUE, TRUE)

\* the feed thread delivers a tick
OptFeedTick ==
    \E price \in OptPrices, ts \in OptTimes :
        /\ opt.last_update = NONE_TIME \/ ts > opt.last_update
        /\ OptOnTick(price, ts, OptClock)
        /\ UNCHANGED opt_pc

NextOpt ==
    \/ OptInitStrategy /\ UNCHANGED <<fixed_vars, tick_time, notifier>>
    \/ OptInitData /\ UNCHANGED <<fixed_vars, tick_time, notifier>>
    \/ OptInitPerformance /\ UNCHANGED <<fixed_vars, tick_time, notifier>>
    \/ OptFeedTick /\ UNCHANGED <<fixed_vars, tick_time, notifier>>

SpecOpt == InitOpt /\ [][NextOpt]_vars

\* the phase transitions the optimized engine's last tick performed
OptDid(e) == \E i \in 1..Len(opt.events) : opt.events[i] = e

\* C34: in the optimized engine a matched entry reads two completed
\* candles: both positions it inspected lie before the last candle of the
\* list, the one the next tick of the same minute still changes
C34_EntryOnCompletedCandles ==
    OptDid("entry") =>
        \A i \in 1..Len(opt.inspected) :
            opt.inspected[i] < Len(opt_candle_data)

\* C35: once the optimized engine's constructor is through and no tick has
\* been processed since, its fields are as the constructor assigns them:
\* a tick delivered during construction has left nothing behind
C35_ConstructionTicksLeaveNoTrace ==
    (opt_pc = "done" /\ opt.tick_count = 0) =>
        /\ opt = OptConstructed
        /\ opt_candle_data = <<>>

\* C36: a tick the optimized engine processes in its breakout phase sets
\* the direction and the price the per-tick detector of
\* src/fixed_groww_trader.py sets for the same range and the same tick when
\* five candles or more are stored, and sets nothing when fewer are
C36_DetectorsAgree ==
    [][(/\ opt'.tick_count # opt.tick_count
        /\ opt.breakout = "NONE"
        /\ opt.first15_done \/ ~opt.context_set)
       => LET fixed == DetectBreakout(
                           [Self EXCEPT !.first15_high = opt'.first15_high,
                                        !.first15_low = opt'.first15_low,
                                        !.current_price = opt'.current_price,
                                        !.breakout = "NONE",
                                        !.breakout_price = 0],
                           OptClock)
          IN  IF Len(opt_candle_data') >= 5
              THEN /\ opt'.breakout = fixed.breakout
                   /\ opt'.breakout_price = fixed.breakout_price
                   /\ Candle5min(opt_candle_data').close = opt'.current_price
              ELSE /\ opt'.breakout = "NONE"
                   /\ opt'.breakout_price = 0]_vars

\* five candles are stored and the tick's price, below the range, is a
\* SELL breakout at that price
C36_Witness ==
    /\ OptDid("breakout")
    /\ Len(opt_candle_data) >= 5
    /\ opt.breakout = "SELL"
    /\ opt.breakout_price = 100
    /\ opt.first15_low = 101

----------------------------------------------------------------------------
(* The gate's specification: ticks of any price around the two ends of the *)
(* market hours and around 09:30, in any order, replayed in one burst; the *)
(* trade time of the tick handed to _on_tick is kept in tick_time          *)

GateTimes == { At(9, 14, 59), At(9, 15, 0), At(9, 30, 40), At(15, 30, 0),
               At(15, 30, 1) }

\* started before 09:30, or restarted later with a range of 100 to 100
InitGate ==
    /\ InitCommon
    /\ InitFresh \/ InitSeeded(History(100, 100, 100, 100))

NextGate ==
    \E price \in Prices, ts \in GateTimes :
        /\ Len(FoldCandle(candle_data, price, ts)) <= MaxCandles
        /\ OnTick(price, ts, ReplayClock)
        /\ tick_time' = ts
        /\ UNCHANGED <<opt_vars, env_vars, notifier>>

SpecGate == InitGate /\ [][NextGate]_vars

\* C37: a tick whose time of day is before 09:15:00 or after 15:30:00
\* changes no field of the engine; so a tick processed before the capture
\* is inside [09:15, 09:30), where the capture stays open, or at or after
\* 09:30, where it closes
C37_OutOfHoursTickDropped ==
    [][/\ (\/ TimeOfDay(tick_time') < market_open_time
           \/ TimeOfDay(tick_time') > market_end)
          => UNCHANGED fixed_vars
       /\ (~first15_done /\ last_update' = tick_time')
          => IF in_first15(tick_time') THEN ~first15_done'
             ELSE /\ TimeOfDay(tick_time') >= first_15_end_time
                  /\ first15_done']_vars

\* a tick one second after 15:30 was handed over and dropped while a
\* breakout was waiting for its retest
C37_Witness ==
    /\ tick_time = At(15, 30, 1)
    /\ last_update # NONE_TIME
    /\ last_update # tick_time
    /\ breakout # "NONE"
    /\ ~retest_touch_occurred

----------------------------------------------------------------------------
(* The notifier's specification: send_message is called MaxMessages times  *)
(* with any priorities, with or without the two credentials, while the     *)
(* event loop runs the queued callbacks and the consumer; a send to the    *)
(* bot returns or raises                                                   *)

\* everything but the notifier
not_notifier == <<fixed_vars, opt_vars, tick_time>>

InitNotifier ==
    /\ InitEngine
    /\ InitFresh
    /\ opt = OptConstructed
    /\ opt_pc = "done"
    /\ \E token \in BOOLEAN, chat_id \in BOOLEAN :
           notifier = NotifierStarted(token, chat_id)

\* a thread calls send_telegram_message
SendMessage ==
    /\ Len(notifier.returns) < MaxMessages
    /\ \E priority \in Priorities :
           notifier' = send_message(notifier, priority)
    /\ UNCHANGED not_notifier

\* the loop runs the oldest callback handed to call_soon_threadsafe
LoopRunsCallback ==
    /\ notifier.ready # <<>>
    /\ notifier' = put_nowait(notifier)
    /\ UNCHANGED not_notifier

\* the loop runs the consumer for the first time
ConsumerStarts ==
    /\ notifier.pc = "start"
    /\ notifier' = ConsumerStart(notifier)
    /\ UNCHANGED not_notifier

\* the await of get() returns once the queue holds a message
ConsumerGets ==
    /\ notifier.pc = "get"
    /\ notifier.queue # <<>>
    /\ notifier' = ConsumerGet(notifier)
    /\ UNCHANGED not_notifier

ConsumerSends ==
    /\ notifier.pc = "send"
    /\ \E outcome \in Outcomes : notifier' = ConsumerSend(notifier, outcome)
    /\ UNCHANGED not_notifier

ConsumerRetries ==
    /\ notifier.pc = "retry"
    /\ \E outcome \in Outcomes : notifier' = ConsumerRetry(notifier, outcome)
    /\ UNCHANGED not_notifier

\* asyncio.sleep returns
ConsumerSleepEnds ==
    /\ notifier.pc \in {"rate_sleep", "error_sleep"}
    /\ notifier' = ConsumerWakes(notifier)
    /\ UNCHANGED not_notifier

NextNotifier ==
    \/ SendMessage
    \/ LoopRunsCallback
    \/ ConsumerStarts
    \/ ConsumerGets
    \/ ConsumerSends
    \/ ConsumerRetries
    \/ ConsumerSleepEnds

\* run_forever keeps running what is ready: a callback handed over is run,
\* an await that can return returns
FairNotifier ==
    /\ WF_vars(LoopRunsCallback)
    /\ WF_vars(ConsumerStarts)
    /\ WF_vars(ConsumerGets)
    /\ WF_vars(ConsumerSends)
    /\ WF_vars(ConsumerRetries)
    /\ WF_vars(ConsumerSleepEnds)

SpecNotifier == InitNotifier /\ [][NextNotifier]_vars /\ FairNotifier

\* send_message has accepted message id
Accepted(id) ==
    \E i \in 1..Len(notifier.accepted) : notifier.accepted[i].id = id

\* the consumer has sent message id to the bot
Attempted(id) ==
    \E i \in 1..Len(notifier.attempted) : notifier.attempted[i].id = id

\* C38: the messages the consumer has sent to the bot are the first of
\* the accepted messages, in the order send_message accepted them, whatever
\* their priorities; send_message returns True exactly when both
\* credentials are set, and without one of them nothing is queued
C38_AttemptedInQueueOrder ==
    /\ Len(notifier.attempted) <= Len(notifier.accepted)
    /\ \A i \in 1..Len(notifier.attempted) :
           notifier.attempted[i] = notifier.accepted[i]
    /\ \A i \in 1..Len(notifier.returns) :
           notifier.returns[i] = (notifier.token /\ notifier.chat_id)
    /\ (~notifier.token \/ ~notifier.chat_id)
       => /\ notifier.accepted = <<>>
          /\ notifier.ready = <<>>
          /\ notifier.queue = <<>>
          /\ notifier.attempted = <<>>

\* a low, a normal and a high message were accepted in that order and
\* sent to the bot in that order
C38_Witness ==
    /\ Len(notifier.attempted) >= 3
    /\ notifier.attempted[1].priority = "low"
    /\ notifier.attempted[2].priority = "normal"
    /\ notifier.attempted[3].priority = "high"
    /\ notifier.attempted[1].id < notifier.attempted[2].id
    /\ notifier.attempted[2].id < notifier.attempted[3].id

\* C39: a consumer started with a token never returns, whatever the sends
\* do; with the loop running what is ready, every message send_message
\* accepted is sent to the bot, those after a message that was given up
\* included
C39_ConsumerKeepsSending ==
    /\ [](notifier.token => notifier.pc # "exited")
    /\ \A id \in 1..MaxMessages : Accepted(id) ~> Attempted(id)

\* a message was given up after its plain-text retry failed, and a later
\* message was sent to the bot
C39_Witness ==
    \E id \in notifier.dropped \cap notifier.retried :
        \E later \in 1..MaxMessages : later > id /\ Attempted(later)

====
